---------------------------- MODULE Spec2Model ----------------------------
(***************************************************************************)
(* State-machine model of coco_comparison_single.py: the AnnotationViewer  *)
(* widget (scale factor, pan offset, drag state, loaded pixmap) and the    *)
(* CocoComparisonApp main window (annotation lists, image registry,        *)
(* statistics, navigation).                                                *)
(*                                                                         *)
(* Python floats are modelled as exact rationals <<n, d>> in lowest terms  *)
(* with d > 0, so 1.1 is 11/10 and a product is the exact product.         *)
(***************************************************************************)
EXTENDS Integers, Sequences, FiniteSets, TLC

(***************************************************************************)
(* Bounds of the model.                                                    *)
(***************************************************************************)
\* user-input events (wheel, menu zoom, mouse, resize) explored per behaviour
MaxEvents == 4
\* longest annotation list a loaded file holds
MaxAnns == 2

(***************************************************************************)
(* Rational arithmetic.                                                    *)
(***************************************************************************)
Abs(x) == IF x < 0 THEN -x ELSE x

RECURSIVE Gcd(_, _)
Gcd(a, b) == IF b = 0 THEN a ELSE Gcd(b, a % b)

\* n/d in lowest terms, sign carried by the numerator (d # 0)
Rat(n, d) ==
    LET g == Gcd(Abs(n), Abs(d))
        s == IF d < 0 THEN -1 ELSE 1
    IN  <<(s * n) \div g, (s * d) \div g>>

RMul(a, b) == Rat(a[1] * b[1], a[2] * b[2])
RAdd(a, b) == Rat(a[1] * b[2] + b[1] * a[2], a[2] * b[2])
RLess(a, b) == a[1] * b[2] < b[1] * a[2]
RLeq(a, b) == a[1] * b[2] <= b[1] * a[2]
RMin(a, b) == IF RLess(b, a) THEN b ELSE a
RMax(a, b) == IF RLess(a, b) THEN b ELSE a

\* Python's true division of two ints: raises ZeroDivisionError on b = 0
\* (a 1-tuple, so that it compares unequal to every rational <<n, d>>)
ZeroDivisionError == <<"ZeroDivisionError">>
Div(a, b) == IF b = 0 THEN ZeroDivisionError ELSE Rat(a, b)

\* Python's floor division by 2 (TLA+ \div floors as well)
FloorDiv2(a) == a \div 2

(***************************************************************************)
(* Values.                                                                 *)
(***************************************************************************)
\* None is the empty tuple and a missing attribute a 1-tuple, so that both
\* compare unequal to every point <<x, y>> and every pixmap <<w, h>>
None == <<>>
\* the attribute drag_start does not exist before the first left press
NoAttr == <<"NoAttr">>
\* the attribute images_directory does not exist before load_images
NoDirectory == "NoAttr"

\* a QPixmap is its size <<w, h>>; the null pixmap has zero width and height
NullPixmap == <<0, 0>>
isNull(pm) == pm[1] = 0 \/ pm[2] = 0

\* truth value of a QPixmap-or-None: None is falsy, a QPixmap object is truthy
TruthyImage(img) == img # None

\* truth value of drag_start: a missing attribute is guarded by hasattr, None
\* is falsy, and PyQt's QPoint.__bool__ is "not isNull()", so QPoint(0, 0)
\* is falsy as well
TruthyPoint(p) == p # NoAttr /\ p # None /\ p # <<0, 0>>

VARIABLES
    \* AnnotationViewer
    current_image,        \* None or a pixmap <<w, h>>
    viewer_machine,       \* viewer.machine_annotations
    viewer_human,         \* viewer.human_annotations
    scale_factor,         \* rational
    offset,               \* QPoint <<x, y>>
    drag_start,           \* NoAttr, None or a QPoint
    size,                 \* widget size <<width, height>>
    info_h,               \* info_panel.height()
    \* CocoComparisonApp
    machine_annotations,
    human_annotations,
    images,               \* the dict as a sequence of ImageInfo, insertion order
    images_directory,     \* NoAttr or a directory
    current_image_index,
    statistics,
    stats_text,           \* <<>> or <<st>>: the statistics the panel shows
    exported,             \* <<>> or <<st>>: the statistics last written out
    pc,                   \* where perform_comparison stands
    \* AnnotationViewer display flags and the output of paintEvent
    show_machine,
    show_human,
    show_labels,
    show_polygons,
    painted,              \* what the paintEvent that just ran has drawn
    \* bookkeeping
    lastOp,               \* the handler that ran last, with its input
    raised,               \* an exception escaped a handler
    nevents               \* user-input events so far

viewerVars == <<current_image, viewer_machine, viewer_human, scale_factor,
                offset, drag_start, size, info_h>>
appVars == <<machine_annotations, human_annotations, images, images_directory,
             current_image_index, statistics>>
flagVars == <<show_machine, show_human, show_labels, show_polygons>>
runVars == <<pc, stats_text, exported>>
vars == <<viewerVars, appVars, flagVars, painted, runVars, lastOp, raised,
          nevents>>

\* no paint pass has just run
NotPainted == [done |-> FALSE, image |-> <<>>, prims |-> <<>>, raised |-> FALSE]

\* a handler other than paintEvent, the display toggles and the comparison:
\* it leaves the flags, the statistics panel and the export alone
Aside == painted' = NotPainted /\ UNCHANGED <<flagVars, runVars>>

\* the inputs of a handler: every handler fills the ones it takes
NoArgs == [delta |-> 0, pos |-> <<0, 0>>, button |-> "", held |-> FALSE,
           dir |-> ""]
Op(name, arg, outcome) == [op |-> name, arg |-> arg, outcome |-> outcome]

(***************************************************************************)
(* AnnotationViewer.                                                       *)
(***************************************************************************)
MinScale == <<1, 10>>
MaxScale == <<10, 1>>
WheelInFactor == <<11, 10>>
WheelOutFactor == <<9, 10>>
MenuInFactor == <<12, 10>>
MenuOutFactor == <<8, 10>>
FitMargin == <<9, 10>>

\* FitNoGuard without the info panel taken off the widget height
FitIgnoresInfoPanel(img, sf, off, sz, ih) ==
    IF img = None \/ isNull(img)
    THEN [scale_factor |-> sf, offset |-> off, raised |-> TRUE]
    ELSE [scale_factor |-> RMul(RMin(Rat(sz[1], img[1]), Rat(sz[2], img[2])),
                                FitMargin),
          offset |-> <<0, FloorDiv2(ih)>>,
          raised |-> FALSE]

\* fit_to_view: the scale and offset it leaves, and whether it raised
\* (lines 168-180, past the guard; None has no width(): AttributeError)
FitNoGuard(img, sf, off, sz, ih) ==
    LET widget_width == sz[1]
        widget_height == sz[2] - ih
        scale_x == IF img = None THEN ZeroDivisionError
                   ELSE Div(widget_width, img[1])
        scale_y == IF img = None THEN ZeroDivisionError
                   ELSE Div(widget_height, img[2])
    IN  IF scale_x = ZeroDivisionError \/ scale_y = ZeroDivisionError
        THEN [scale_factor |-> sf, offset |-> off, raised |-> TRUE]
        ELSE [scale_factor |-> RMul(RMin(scale_x, scale_y), FitMargin),
              offset |-> <<0, FloorDiv2(ih)>>,
              raised |-> FALSE]

\* fit_to_view without its guard
FitUnguarded(img, sf, off, sz, ih) == FitNoGuard(img, sf, off, sz, ih)

fit_to_view(img, sf, off, sz, ih) ==
    IF ~TruthyImage(img) \/ isNull(img)
    THEN [scale_factor |-> sf, offset |-> off, raised |-> FALSE]
    ELSE FitNoGuard(img, sf, off, sz, ih)

\* the clamp of wheelEvent
Clamp(s) == RMax(MinScale, RMin(MaxScale, s))

\* wheelZoom with the menu's factors
wheelZoomMenuFactors(s, delta) ==
    LET zoom_factor == IF delta > 0 THEN MenuInFactor ELSE MenuOutFactor
    IN  Clamp(RMul(s, zoom_factor))

wheelZoom(s, delta) ==
    LET zoom_factor == IF delta > 0 THEN WheelInFactor ELSE WheelOutFactor
    IN  Clamp(RMul(s, zoom_factor))

menuZoomIn(s) == RMul(s, MenuInFactor)
menuZoomOut(s) == RMul(s, MenuOutFactor)

\* The file system the image directory is read from: what opening a file of
\* the directory gives, <<"missing">>, <<"corrupt">> (PIL raises) or the
\* QPixmap built from it (the null pixmap when QPixmap.fromImage fails).
Missing == <<"missing">>
Corrupt == <<"corrupt">>
Directories == {"dirA", "dirB"}
Disk(dir, name) ==
    IF dir = "dirA" /\ name = "small.png" THEN <<60, 36>>
    ELSE IF dir = "dirA" /\ name = "big.png" THEN <<4000, 2400>>
    ELSE IF dir = "dirA" /\ name = "bad.png" THEN Corrupt
    ELSE IF dir = "dirA" /\ name = "huge.png" THEN NullPixmap
    ELSE Missing
\* os.walk finds at least one file with an image extension
ImagesFound(dir) == dir = "dirA"
\* os.path.basename
Basename(name) == IF name = "sub/small.png" THEN "small.png" ELSE name
Exists(dir, name) == Disk(dir, name) # Missing

\* load_image without its call of fit_to_view
load_imageNoFit(dir, name, sf, off, sz, ih) ==
    IF ~Exists(dir, name) \/ Disk(dir, name) = Corrupt
    THEN [current_image |-> None, scale_factor |-> sf, offset |-> off]
    ELSE [current_image |-> Disk(dir, name), scale_factor |-> sf,
          offset |-> off]

\* load_image: the viewer's image, scale and offset after it
load_image(dir, name, sf, off, sz, ih) ==
    IF ~Exists(dir, name)
    THEN [current_image |-> None, scale_factor |-> sf, offset |-> off]
    ELSE IF Disk(dir, name) = Corrupt
    THEN [current_image |-> None, scale_factor |-> sf, offset |-> off]
    ELSE LET fit == fit_to_view(Disk(dir, name), sf, off, sz, ih)
         IN  IF fit.raised
             THEN [current_image |-> None, scale_factor |-> sf, offset |-> off]
             ELSE [current_image |-> Disk(dir, name),
                   scale_factor |-> fit.scale_factor, offset |-> fit.offset]

(***************************************************************************)
(* CocoComparisonApp.                                                      *)
(***************************************************************************)
\* [ann for ann in anns if ann.image_id == image_id]
AnnsOfImage(anns, image_id) == SelectSeq(anns, LAMBDA ann : ann.image_id = image_id)

\* the path show_image resolves for an image, Missing when neither candidate
\* exists or images_directory is not set
ResolvedName(dir, file_name) ==
    IF dir = NoDirectory THEN Missing
    ELSE IF Exists(dir, file_name) THEN <<file_name>>
    ELSE IF Exists(dir, Basename(file_name)) THEN <<Basename(file_name)>>
    ELSE Missing

\* what show_image may change
Shown == [current_image |-> current_image, scale_factor |-> scale_factor,
          offset |-> offset, viewer_machine |-> viewer_machine,
          viewer_human |-> viewer_human,
          current_image_index |-> current_image_index]

\* show_image that records the index and the annotations before it looks
\* for the file
show_imageIndexFirst(index, imgs, mach, hum, dir) ==
    IF imgs = <<>> THEN Shown
    ELSE IF index < 0 \/ index >= Len(imgs) THEN Shown
    ELSE LET image_info == imgs[index + 1]
             image_id == image_info.id
             image_path == ResolvedName(dir, image_info.file_name)
             loaded == IF image_path = Missing
                       THEN [current_image |-> current_image,
                             scale_factor |-> scale_factor, offset |-> offset]
                       ELSE load_image(dir, image_path[1], scale_factor,
                                       offset, size, info_h)
         IN  [current_image |-> loaded.current_image,
              scale_factor |-> loaded.scale_factor,
              offset |-> loaded.offset,
              viewer_machine |-> AnnsOfImage(mach, image_id),
              viewer_human |-> AnnsOfImage(hum, image_id),
              current_image_index |-> index]

\* show_image(index) over the image registry imgs and annotation lists
\* mach, hum (index is 0-based as in the source; imgs is 1-based)
show_image(index, imgs, mach, hum, dir) ==
    IF imgs = <<>> THEN Shown
    ELSE IF index < 0 \/ index >= Len(imgs) THEN Shown
    ELSE LET image_info == imgs[index + 1]
             image_id == image_info.id
             image_path == ResolvedName(dir, image_info.file_name)
         IN  IF image_path = Missing THEN Shown
             ELSE LET loaded == load_image(dir, image_path[1], scale_factor,
                                           offset, size, info_h)
                  IN  [current_image |-> loaded.current_image,
                       scale_factor |-> loaded.scale_factor,
                       offset |-> loaded.offset,
                       viewer_machine |-> AnnsOfImage(mach, image_id),
                       viewer_human |-> AnnsOfImage(hum, image_id),
                       current_image_index |-> index]

\* assign what show_image returned
SetShown(s) ==
    /\ current_image' = s.current_image
    /\ scale_factor' = s.scale_factor
    /\ offset' = s.offset
    /\ viewer_machine' = s.viewer_machine
    /\ viewer_human' = s.viewer_human
    /\ current_image_index' = s.current_image_index

\* self.images[img_id] = ImageInfo(...): a dict keeps the position of a key
\* it already holds and appends a new one
RECURSIVE IndexOfId(_, _, _)
IndexOfId(imgs, id, i) ==
    IF i > Len(imgs) THEN 0
    ELSE IF imgs[i].id = id THEN i
    ELSE IndexOfId(imgs, id, i + 1)

DictPut(imgs, info) ==
    LET i == IndexOfId(imgs, info.id, 1)
    IN  IF i = 0 THEN Append(imgs, info) ELSE [imgs EXCEPT ![i] = info]

RECURSIVE DictPutAll(_, _)
DictPutAll(imgs, infos) ==
    IF infos = <<>> THEN imgs
    ELSE DictPutAll(DictPut(imgs, Head(infos)), Tail(infos))

\* {ann.image_id for ann in anns}
ImageIds(anns) == {anns[i].image_id : i \in 1..Len(anns)}

InitialStatistics ==
    [total_images |-> 0, total_machine |-> 0, total_human |-> 0,
     matches |-> 0, mismatches |-> 0, missing |-> 0, extra |-> 0,
     precision |-> <<0, 1>>, recall |-> <<0, 1>>, f1_score |-> <<0, 1>>]

\* Ratio with floor division ("//") in place of true division
RatioFloorDiv(x, total) == IF total > 0 THEN <<x \div total, 1>> ELSE <<0, 1>>

\* "x / total if total > 0 else 0"
Ratio(x, total) == IF total > 0 THEN Div(x, total) ELSE <<0, 1>>

\* F1Score without the factor 2
F1ScoreNoDouble(p, r) ==
    IF RLess(<<0, 1>>, RAdd(p, r))
    THEN LET sum == RAdd(p, r)
             num == RMul(p, r)
         IN  Rat(num[1] * sum[2], num[2] * sum[1])
    ELSE <<0, 1>>

\* f1_score starts at 0.0 and is assigned only "if p + r > 0"
\* (not reached when computing p or r raised)
F1Score(p, r) ==
    IF p = ZeroDivisionError \/ r = ZeroDivisionError THEN <<0, 1>>
    ELSE IF RLess(<<0, 1>>, RAdd(p, r))
    THEN LET sum == RAdd(p, r)
             num == RMul(<<2, 1>>, RMul(p, r))
         IN  Rat(num[1] * sum[2], num[2] * sum[1])
    ELSE <<0, 1>>

Max0(x) == IF x > 0 THEN x ELSE 0

\* perform_comparison counting as matches the pairs of a machine and a
\* human annotation on the same image
ComputeStatisticsPairs(mach, hum, imgs) ==
    LET total_machine == Len(mach)
        total_human == Len(hum)
        matches == Cardinality({<<i, j>> \in (1..Len(mach)) \X (1..Len(hum)) :
                                  mach[i].image_id = hum[j].image_id})
        p == Ratio(matches, total_machine)
        r == Ratio(matches, total_human)
    IN  [total_images |-> Len(imgs),
         total_machine |-> total_machine,
         total_human |-> total_human,
         matches |-> matches,
         mismatches |-> Abs(total_machine - total_human),
         missing |-> Max0(total_human - total_machine),
         extra |-> Max0(total_machine - total_human),
         precision |-> p,
         recall |-> r,
         f1_score |-> F1Score(p, r)]

\* perform_comparison patching the counts of the previous statistics
\* instead of assigning a new dict
ComputeStatisticsPatched(mach, hum, imgs) ==
    LET total_machine == statistics.total_machine + Len(mach)
        total_human == statistics.total_human + Len(hum)
        matches == statistics.matches
                     + Cardinality(ImageIds(mach) \cap ImageIds(hum))
        p == Ratio(matches, total_machine)
        r == Ratio(matches, total_human)
    IN  [total_images |-> Len(imgs),
         total_machine |-> total_machine,
         total_human |-> total_human,
         matches |-> matches,
         mismatches |-> Abs(total_machine - total_human),
         missing |-> Max0(total_human - total_machine),
         extra |-> Max0(total_machine - total_human),
         precision |-> p,
         recall |-> r,
         f1_score |-> F1Score(p, r)]

\* the dict perform_comparison builds inside its try block
ComputeStatistics(mach, hum, imgs) ==
    LET total_machine == Len(mach)
        total_human == Len(hum)
        common_images == ImageIds(mach) \cap ImageIds(hum)
        p == Ratio(Cardinality(common_images), total_machine)
        r == Ratio(Cardinality(common_images), total_human)
    IN  [total_images |-> Len(imgs),
         total_machine |-> total_machine,
         total_human |-> total_human,
         matches |-> Cardinality(common_images),
         mismatches |-> Abs(total_machine - total_human),
         missing |-> Max0(total_human - total_machine),
         extra |-> Max0(total_machine - total_human),
         precision |-> p,
         recall |-> r,
         f1_score |-> F1Score(p, r)]

\* an image_id that was a JSON list: it equals no image's id and a set
\* comprehension over it raises TypeError (unhashable)
ListId == -1
Hashable(id) == id # ListId

\* the try block raised: control goes to "except Exception" before
\* self.statistics is assigned
ComparisonRaises(mach, hum, imgs) ==
    \/ \E i \in 1..Len(mach) : ~Hashable(mach[i].image_id)
    \/ \E i \in 1..Len(hum) : ~Hashable(hum[i].image_id)
    \/ LET st == ComputeStatistics(mach, hum, imgs)
       IN  st.precision = ZeroDivisionError \/ st.recall = ZeroDivisionError

(***************************************************************************)
(* Rendering.  The renderer reads bbox and segmentation as the JSON values *)
(* parse_coco_annotations stored: null, a number, a string, a list or a    *)
(* dict.                                                                   *)
(***************************************************************************)
Null == [null |-> TRUE]
Num(n) == [num |-> n]
Str(s) == [str |-> s]
List(s) == [list |-> s]
Dict(s) == [dict |-> s]
IsNull(v) == "null" \in DOMAIN v
IsNum(v) == "num" \in DOMAIN v
IsList(v) == "list" \in DOMAIN v

\* Python truth of a JSON value ("not v" is its negation)
Truthy(v) ==
    IF IsNull(v) THEN FALSE
    ELSE IF IsNum(v) THEN v.num # 0
    ELSE IF IsList(v) THEN Len(v.list) > 0
    ELSE IF "str" \in DOMAIN v THEN v.str # ""
    ELSE v.dict # ""

\* int(x) of a float: truncation toward zero
Trunc(r) == IF r[1] >= 0 THEN r[1] \div r[2] ELSE -((-r[1]) \div r[2])

\* int(v * self.scale_factor + origin)
ToWidget(v, sf, origin) == Trunc(RAdd(RMul(<<v, 1>>, sf), <<origin, 1>>))

\* img_rect of paintEvent as <<x, y, width, height>>
img_rect(img, sf, off, sz) ==
    LET img_width == Trunc(RMul(<<img[1], 1>>, sf))
        img_height == Trunc(RMul(<<img[2], 1>>, sf))
    IN  <<FloorDiv2(sz[1]) - FloorDiv2(img_width) + off[1],
          FloorDiv2(sz[2]) - FloorDiv2(img_height) + off[2],
          img_width, img_height>>

\* what the painter is asked to draw: one shape for every primitive
NoText == [prefix |-> "", number |-> 0, category_id |-> 0, suffix |-> <<>>]
Prim(kind, prefix, i, sub, rect, text, points) ==
    [kind |-> kind, prefix |-> prefix, index |-> i, sub |-> sub, rect |-> rect,
     text |-> text, points |-> points]

\* "{c:.2f}" as a number of hundredths; c is a non-negative float that the
\* rational holds exactly, so a tie is a real tie and goes to the even digit
Fmt2(c) ==
    LET n == c[1] * 100
        q == n \div c[2]
        rem == n % c[2]
    IN  IF 2 * rem > c[2] THEN q + 1
        ELSE IF 2 * rem = c[2] THEN q + (q % 2)
        ELSE q

\* label with the 0-based position in place of i + 1
labelZeroBased(prefix, i, ann) ==
    [prefix |-> prefix, number |-> i, category_id |-> ann.category_id,
     suffix |-> IF RLess(ann.confidence, <<1, 1>>)
                THEN <<Fmt2(ann.confidence)>> ELSE <<>>]

\* the label text f"{prefix}{i+1}:{ann.category_id}" and its suffix
\* f"({ann.confidence:.2f})", kept as the fields it is formatted from
label(prefix, i, ann) ==
    [prefix |-> prefix, number |-> i + 1, category_id |-> ann.category_id,
     suffix |-> IF RLess(ann.confidence, <<1, 1>>)
                THEN <<Fmt2(ann.confidence)>> ELSE <<>>]

\* polygons that drops a flat segmentation
polygonsNestedOnly(segmentation) ==
    IF IsList(segmentation)
    THEN IF Truthy(segmentation) /\ IsList(segmentation.list[1])
         THEN segmentation.list
         ELSE <<>>
    ELSE <<>>

\* the list "polygons" draw_segmentation builds from either format
polygons(segmentation) ==
    IF IsList(segmentation)
    THEN IF Truthy(segmentation) /\ IsList(segmentation.list[1])
         THEN segmentation.list
         ELSE <<segmentation>>
    ELSE <<>>

\* the QPoints of one polygon: a pair for every even j with j + 1 < len(poly)
RECURSIVE points(_, _, _, _)
points(poly, j, sf, rect) ==
    IF j >= Len(poly) THEN <<>>
    ELSE IF j + 1 < Len(poly)
    THEN <<<<ToWidget(poly[j + 1].num, sf, rect[1]),
             ToWidget(poly[j + 2].num, sf, rect[2])>>>>
           \o points(poly, j + 2, sf, rect)
    ELSE points(poly, j + 2, sf, rect)

\* the loop over polygons leaving at the first polygon it does not draw
RECURSIVE draw_polygonsBreak(_, _, _, _, _, _)
draw_polygonsBreak(polys, k, rect, sf, prefix, i) ==
    IF k >= Len(polys) THEN <<>>
    ELSE LET poly == polys[k + 1]
             pts == points(poly.list, 0, sf, rect)
         IN  IF ~Truthy(poly) \/ Len(poly.list) < 6 THEN <<>>
             ELSE (IF Len(pts) >= 3
                   THEN <<Prim("polygon", prefix, i, k, <<0, 0, 0, 0>>, NoText,
                               pts)>>
                   ELSE <<>>)
                  \o draw_polygonsBreak(polys, k + 1, rect, sf, prefix, i)

\* "for poly in polygons" from the polygon at position k on
RECURSIVE draw_polygons(_, _, _, _, _, _)
draw_polygons(polys, k, rect, sf, prefix, i) ==
    IF k >= Len(polys) THEN <<>>
    ELSE LET poly == polys[k + 1]
             pts == points(poly.list, 0, sf, rect)
             rest == draw_polygons(polys, k + 1, rect, sf, prefix, i)
         IN  IF ~Truthy(poly) \/ Len(poly.list) < 6 THEN rest
             ELSE IF Len(pts) >= 3
             THEN <<Prim("polygon", prefix, i, k, <<0, 0, 0, 0>>, NoText, pts)>>
                    \o rest
             ELSE rest

\* draw_segmentation: the polygons drawn for annotation i
draw_segmentation(rect, sf, segmentation, prefix, i) ==
    IF ~Truthy(segmentation) THEN <<>>
    ELSE draw_polygons(polygons(segmentation), 0, rect, sf, prefix, i)

\* bbox is a list of four entries one of which is not a number: unpacking
\* succeeds and the multiplication by scale_factor raises TypeError
BboxRaises(bbox) == \E k \in 1..4 : ~IsNum(bbox.list[k])

\* "for i, ann in enumerate(annotations)" from position i on: the primitives
\* drawn and whether an exception ended the loop
RECURSIVE draw_from(_, _, _, _, _, _, _)
draw_from(i, rect, sf, annotations, prefix, labels, polys) ==
    IF i >= Len(annotations) THEN [prims |-> <<>>, raised |-> FALSE]
    ELSE LET ann == annotations[i + 1]
             rest == draw_from(i + 1, rect, sf, annotations, prefix, labels,
                               polys)
         IN  IF ~Truthy(ann.bbox) \/ Len(ann.bbox.list) # 4 THEN rest
             ELSE IF BboxRaises(ann.bbox)
             THEN [prims |-> <<>>, raised |-> TRUE]
             ELSE LET x == ToWidget(ann.bbox.list[1].num, sf, rect[1])
                      y == ToWidget(ann.bbox.list[2].num, sf, rect[2])
                      w == Trunc(RMul(<<ann.bbox.list[3].num, 1>>, sf))
                      h == Trunc(RMul(<<ann.bbox.list[4].num, 1>>, sf))
                      box == <<Prim("box", prefix, i, -1, <<x, y, w, h>>,
                                    NoText, <<>>)>>
                      chip == IF labels
                              THEN <<Prim("label", prefix, i, -1,
                                          <<x, y - 20, 0, 20>>,
                                          label(prefix, i, ann), <<>>)>>
                              ELSE <<>>
                      segs == IF polys
                              THEN draw_segmentation(rect, sf,
                                                     ann.segmentation, prefix,
                                                     i)
                              ELSE <<>>
                 IN  [prims |-> box \o chip \o segs \o rest.prims,
                      raised |-> rest.raised]

\* draw_annotations (a label's width is the font's and is left 0)
draw_annotations(rect, sf, annotations, prefix, labels, polys) ==
    draw_from(0, rect, sf, annotations, prefix, labels, polys)

\* paintEvent drawing the human annotations first
paintEventHumanFirst(img, sf, off, sz, mach, hum, sm, sh, labels, polys) ==
    IF ~TruthyImage(img) \/ isNull(img) THEN [NotPainted EXCEPT !.done = TRUE]
    ELSE LET rect == img_rect(img, sf, off, sz)
             none == [prims |-> <<>>, raised |-> FALSE]
             h == IF sh
                  THEN draw_annotations(rect, sf, hum, "H", labels, polys)
                  ELSE none
             m == IF sm /\ ~h.raised
                  THEN draw_annotations(rect, sf, mach, "M", labels, polys)
                  ELSE none
         IN  [done |-> TRUE, image |-> rect, prims |-> h.prims \o m.prims,
              raised |-> m.raised \/ h.raised]

\* paintEvent: the image rectangle and the annotation primitives in the order
\* they are drawn; an exception leaves what was drawn before it
paintEvent(img, sf, off, sz, mach, hum, sm, sh, labels, polys) ==
    IF ~TruthyImage(img) \/ isNull(img) THEN [NotPainted EXCEPT !.done = TRUE]
    ELSE LET rect == img_rect(img, sf, off, sz)
             none == [prims |-> <<>>, raised |-> FALSE]
             m == IF sm
                  THEN draw_annotations(rect, sf, mach, "M", labels, polys)
                  ELSE none
             h == IF sh /\ ~m.raised
                  THEN draw_annotations(rect, sf, hum, "H", labels, polys)
                  ELSE none
         IN  [done |-> TRUE, image |-> rect, prims |-> m.prims \o h.prims,
              raised |-> m.raised \/ h.raised]

(***************************************************************************)
(* Handlers of the viewer.                                                 *)
(***************************************************************************)
ViewEvent == nevents < MaxEvents /\ nevents' = nevents + 1

\* wheelEvent with angleDelta().y() = delta
WheelEvent(delta) ==
    /\ ViewEvent
    /\ scale_factor' = wheelZoom(scale_factor, delta)
    /\ lastOp' = Op("wheelEvent", [NoArgs EXCEPT !.delta = delta], "done")
    /\ UNCHANGED <<current_image, viewer_machine, viewer_human, offset,
                   drag_start, size, info_h, appVars, raised>>
    /\ Aside

\* View menu: zoom_in
ZoomIn ==
    /\ ViewEvent
    /\ scale_factor' = menuZoomIn(scale_factor)
    /\ lastOp' = Op("zoom_in", NoArgs, "done")
    /\ UNCHANGED <<current_image, viewer_machine, viewer_human, offset,
                   drag_start, size, info_h, appVars, raised>>
    /\ Aside

\* View menu: zoom_out
ZoomOut ==
    /\ ViewEvent
    /\ scale_factor' = menuZoomOut(scale_factor)
    /\ lastOp' = Op("zoom_out", NoArgs, "done")
    /\ UNCHANGED <<current_image, viewer_machine, viewer_human, offset,
                   drag_start, size, info_h, appVars, raised>>
    /\ Aside

\* View menu: fit_to_view (CocoComparisonApp.fit_to_view calls the viewer's)
FitToView ==
    LET fit == fit_to_view(current_image, scale_factor, offset, size, info_h)
    IN  /\ ViewEvent
        /\ scale_factor' = fit.scale_factor
        /\ offset' = fit.offset
        /\ raised' = (raised \/ fit.raised)
        /\ lastOp' = Op("fit_to_view", NoArgs, "done")
        /\ UNCHANGED <<current_image, viewer_machine, viewer_human,
                       drag_start, size, info_h, appVars>>
        /\ Aside

\* resizeEvent that only takes the new geometry
ResizeEventNoFit(sz, ih) ==
    /\ ViewEvent
    /\ size' = sz
    /\ info_h' = ih
    /\ lastOp' = Op("resizeEvent", NoArgs, "done")
    /\ UNCHANGED <<current_image, viewer_machine, viewer_human, scale_factor,
                   offset, drag_start, appVars, raised>>
    /\ Aside

\* resizeEvent: the widget and its info panel have their new geometry
ResizeEvent(sz, ih) ==
    LET fit == fit_to_view(current_image, scale_factor, offset, sz, ih)
    IN  /\ ViewEvent
        /\ size' = sz
        /\ info_h' = ih
        /\ scale_factor' = fit.scale_factor
        /\ offset' = fit.offset
        /\ raised' = (raised \/ fit.raised)
        /\ lastOp' = Op("resizeEvent", NoArgs, "done")
        /\ UNCHANGED <<current_image, viewer_machine, viewer_human,
                       drag_start, appVars>>
        /\ Aside

MousePressEvent(button, pos) ==
    /\ ViewEvent
    /\ drag_start' = IF button = "left" THEN pos ELSE drag_start
    /\ lastOp' = Op("mousePressEvent",
                 [NoArgs EXCEPT !.button = button, !.pos = pos], "done")
    /\ UNCHANGED <<current_image, viewer_machine, viewer_human, scale_factor,
                   offset, size, info_h, appVars, raised>>
    /\ Aside

\* mouseMoveEvent at pos, leftHeld = event.buttons() & LeftButton
MouseMoveEvent(pos, leftHeld) ==
    /\ ViewEvent
    /\ IF TruthyPoint(drag_start) /\ leftHeld
       THEN /\ offset' = <<offset[1] + (pos[1] - drag_start[1]),
                           offset[2] + (pos[2] - drag_start[2])>>
            /\ drag_start' = pos
       ELSE UNCHANGED <<offset, drag_start>>
    /\ lastOp' = Op("mouseMoveEvent",
                 [NoArgs EXCEPT !.pos = pos, !.held = leftHeld], "done")
    /\ UNCHANGED <<current_image, viewer_machine, viewer_human, scale_factor,
                   size, info_h, appVars, raised>>
    /\ Aside

MouseReleaseEvent(button) ==
    /\ ViewEvent
    /\ drag_start' = IF button = "left" /\ drag_start # NoAttr
                     THEN None ELSE drag_start
    /\ lastOp' = Op("mouseReleaseEvent", [NoArgs EXCEPT !.button = button],
                    "done")
    /\ UNCHANGED <<current_image, viewer_machine, viewer_human, scale_factor,
                   offset, size, info_h, appVars, raised>>
    /\ Aside

\* paintEvent, which Qt delivers after update() and whenever the widget is
\* exposed
PaintEvent ==
    /\ painted' = paintEvent(current_image, scale_factor, offset, size,
                             viewer_machine, viewer_human, show_machine,
                             show_human, show_labels, show_polygons)
    /\ raised' = (raised \/ painted'.raised)
    /\ lastOp' = Op("paintEvent", NoArgs, "done")
    /\ UNCHANGED <<viewerVars, appVars, flagVars, runVars, nevents>>

\* Qt.CheckState.Checked.value and Qt.CheckState.Unchecked.value
Checked == 2
Unchecked == 0

\* the stateChanged handlers of the four display check boxes
ToggleHandled(name) ==
    /\ painted' = NotPainted
    /\ lastOp' = Op(name, NoArgs, "done")
    /\ UNCHANGED <<viewerVars, appVars, runVars, raised, nevents>>

toggle_machine_display(state) ==
    /\ show_machine' = (state = Checked)
    /\ ToggleHandled("toggle_machine_display")
    /\ UNCHANGED <<show_human, show_labels, show_polygons>>

toggle_human_display(state) ==
    /\ show_human' = (state = Checked)
    /\ ToggleHandled("toggle_human_display")
    /\ UNCHANGED <<show_machine, show_labels, show_polygons>>

toggle_labels_display(state) ==
    /\ show_labels' = (state = Checked)
    /\ ToggleHandled("toggle_labels_display")
    /\ UNCHANGED <<show_machine, show_human, show_polygons>>

toggle_polygons_display(state) ==
    /\ show_polygons' = (state = Checked)
    /\ ToggleHandled("toggle_polygons_display")
    /\ UNCHANGED <<show_machine, show_human, show_labels>>

(***************************************************************************)
(* Handlers of the main window.                                            *)
(***************************************************************************)
\* load_machine_annotations with a file that parses to data
LoadMachine(data) ==
    LET imgs == DictPutAll(images, data.images)
    IN  /\ machine_annotations' = data.annotations
        /\ images' = imgs
        /\ SetShown(show_image(0, imgs, data.annotations, human_annotations,
                               images_directory))
        /\ lastOp' = Op("load_machine_annotations", NoArgs, "done")
        /\ UNCHANGED <<human_annotations, images_directory, statistics,
                       drag_start, size, info_h, raised, nevents>>
        /\ Aside

\* load_human_annotations with a file that parses to data
LoadHuman(data) ==
    /\ human_annotations' = data.annotations
    /\ SetShown(show_image(0, images, machine_annotations, data.annotations,
                           images_directory))
    /\ lastOp' = Op("load_human_annotations", NoArgs, "done")
    /\ UNCHANGED <<machine_annotations, images, images_directory, statistics,
                   drag_start, size, info_h, raised, nevents>>
    /\ Aside

\* either loader when the dialog is cancelled or open / json.load raises:
\* nothing is assigned
LoadFailed(which) ==
    /\ lastOp' = Op(which, NoArgs, "failed")
    /\ UNCHANGED <<viewerVars, appVars, raised, nevents>>
    /\ Aside

\* load_images with the chosen directory
LoadImages(dir) ==
    /\ images_directory' = dir
    /\ IF ImagesFound(dir) /\ images # <<>>
       THEN SetShown(show_image(0, images, machine_annotations,
                                human_annotations, dir))
       ELSE SetShown(Shown)
    /\ lastOp' = Op("load_images", [NoArgs EXCEPT !.dir = dir], "done")
    /\ UNCHANGED <<machine_annotations, human_annotations, images, statistics,
                   drag_start, size, info_h, raised, nevents>>
    /\ Aside

PrevImage ==
    /\ IF images # <<>> /\ current_image_index > 0
       THEN SetShown(show_image(current_image_index - 1, images,
                                machine_annotations, human_annotations,
                                images_directory))
       ELSE SetShown(Shown)
    /\ lastOp' = Op("prev_image", NoArgs, "done")
    /\ UNCHANGED <<machine_annotations, human_annotations, images,
                   images_directory, statistics, drag_start, size, info_h,
                   raised, nevents>>
    /\ Aside

\* next_image that advances the index before it shows the image
NextImageCountsFirst ==
    /\ IF images # <<>>
       THEN SetShown([show_image(current_image_index + 1, images,
                                 machine_annotations, human_annotations,
                                 images_directory)
                      EXCEPT !.current_image_index = current_image_index + 1])
       ELSE SetShown(Shown)
    /\ current_image_index < Len(images) + 1
    /\ lastOp' = Op("next_image", NoArgs, "done")
    /\ UNCHANGED <<machine_annotations, human_annotations, images,
                   images_directory, statistics, drag_start, size, info_h,
                   raised, nevents>>
    /\ Aside

NextImage ==
    /\ IF images # <<>> /\ current_image_index < Len(images) - 1
       THEN SetShown(show_image(current_image_index + 1, images,
                                machine_annotations, human_annotations,
                                images_directory))
       ELSE SetShown(Shown)
    /\ lastOp' = Op("next_image", NoArgs, "done")
    /\ UNCHANGED <<machine_annotations, human_annotations, images,
                   images_directory, statistics, drag_start, size, info_h,
                   raised, nevents>>
    /\ Aside

\* perform_comparison without its guard on empty annotation lists
PerformComparisonNoGuard ==
    /\ statistics' = ComputeStatistics(machine_annotations, human_annotations,
                                       images)
    /\ lastOp' = Op("perform_comparison", NoArgs,
                    IF machine_annotations = <<>> \/ human_annotations = <<>>
                    THEN "rejected" ELSE "done")
    /\ stats_text' = <<statistics'>>
    /\ painted' = NotPainted
    /\ UNCHANGED <<viewerVars, machine_annotations, human_annotations, images,
                   images_directory, current_image_index, raised, nevents,
                   flagVars, pc, exported>>

\* perform_comparison
PerformComparison ==
    /\ IF machine_annotations = <<>> \/ human_annotations = <<>>
       THEN /\ UNCHANGED statistics
            /\ lastOp' = Op("perform_comparison", NoArgs, "rejected")
       ELSE IF ComparisonRaises(machine_annotations, human_annotations, images)
       THEN /\ UNCHANGED statistics
            /\ lastOp' = Op("perform_comparison", NoArgs, "error")
       ELSE /\ statistics' = ComputeStatistics(machine_annotations,
                                               human_annotations, images)
            /\ lastOp' = Op("perform_comparison", NoArgs, "done")
    /\ stats_text' = (IF lastOp'.outcome = "done" THEN <<statistics'>>
                      ELSE stats_text)
    /\ painted' = NotPainted
    /\ UNCHANGED <<viewerVars, machine_annotations, human_annotations, images,
                   images_directory, current_image_index, raised, nevents,
                   flagVars, pc, exported>>

(***************************************************************************)
(* perform_comparison statement by statement, with the places where the    *)
(* event loop runs: before the handler (pc = "idle") and inside the modal   *)
(* QMessageBox that ends a completed run (pc = "dialog").                   *)
(***************************************************************************)
CompareStep ==
    /\ painted' = NotPainted
    /\ UNCHANGED <<viewerVars, machine_annotations, human_annotations, images,
                   images_directory, current_image_index, flagVars, exported,
                   raised, nevents>>

\* the run that shows the panel and the dialog right after the assignment
\* of the dict, before f1_score is computed
CompareBeginThenDialog ==
    /\ pc = "idle"
    /\ IF machine_annotations = <<>> \/ human_annotations = <<>>
       THEN /\ UNCHANGED <<statistics, stats_text, pc>>
            /\ lastOp' = Op("perform_comparison", NoArgs, "rejected")
       ELSE IF ComparisonRaises(machine_annotations, human_annotations, images)
       THEN /\ UNCHANGED <<statistics, stats_text, pc>>
            /\ lastOp' = Op("perform_comparison", NoArgs, "error")
       ELSE /\ statistics' = [ComputeStatistics(machine_annotations,
                                                human_annotations, images)
                              EXCEPT !.f1_score = <<0, 1>>]
            /\ stats_text' = <<statistics'>>
            /\ pc' = "dialog"
            /\ lastOp' = Op("perform_comparison", NoArgs, "running")
    /\ CompareStep

\* lines 885-919: the guard, the counts and the assignment of the new dict,
\* whose f1_score is 0.0
CompareBegin ==
    /\ pc = "idle"
    /\ IF machine_annotations = <<>> \/ human_annotations = <<>>
       THEN /\ UNCHANGED <<statistics, pc>>
            /\ lastOp' = Op("perform_comparison", NoArgs, "rejected")
       ELSE IF ComparisonRaises(machine_annotations, human_annotations, images)
       THEN /\ UNCHANGED <<statistics, pc>>
            /\ lastOp' = Op("perform_comparison", NoArgs, "error")
       ELSE /\ statistics' = [ComputeStatistics(machine_annotations,
                                                human_annotations, images)
                              EXCEPT !.f1_score = <<0, 1>>]
            /\ pc' = "assigned"
            /\ lastOp' = Op("perform_comparison", NoArgs, "running")
    /\ UNCHANGED stats_text
    /\ CompareStep

\* lines 921-925: f1_score from the dict's precision and recall
CompareScore ==
    /\ pc = "assigned"
    /\ statistics' = [statistics EXCEPT
                        !.f1_score = F1Score(statistics.precision,
                                             statistics.recall)]
    /\ pc' = "scored"
    /\ UNCHANGED <<stats_text, lastOp>>
    /\ CompareStep

\* lines 928-936: update_statistics, the log and the modal dialog
CompareShow ==
    /\ pc = "scored"
    /\ stats_text' = <<statistics>>
    /\ pc' = "dialog"
    /\ UNCHANGED <<statistics, lastOp>>
    /\ CompareStep

\* the dialog is dismissed and perform_comparison returns
CompareClose ==
    /\ pc = "dialog"
    /\ pc' = "idle"
    /\ lastOp' = Op("perform_comparison", NoArgs, "done")
    /\ UNCHANGED <<statistics, stats_text>>
    /\ CompareStep

\* export_statistics; written says a path was chosen and the file written
ExportStatistics(written) ==
    /\ pc = "idle"
    /\ exported' = (IF statistics.total_images # 0 /\ written
                    THEN <<statistics>> ELSE exported)
    /\ lastOp' = Op("export_statistics", NoArgs,
                    IF statistics.total_images = 0 THEN "rejected"
                    ELSE IF written THEN "done" ELSE "failed")
    /\ painted' = NotPainted
    /\ UNCHANGED <<viewerVars, appVars, flagVars, pc, stats_text, raised,
                   nevents>>

(***************************************************************************)
(* Inputs.                                                                 *)
(***************************************************************************)
\* bounding boxes [x, y, width, height]
BoxA == <<0, 0, 10, 10>>
BoxB == <<1, 1, 10, 10>>

Ann(id, image_id, category_id, bbox) ==
    [id |-> id, image_id |-> image_id, category_id |-> category_id,
     bbox |-> bbox, segmentation |-> None, confidence |-> <<1, 1>>]

ImageInfo(id, file_name) ==
    [id |-> id, file_name |-> file_name, width |-> 0, height |-> 0]

\* the annotations a machine file / a human file may hold
MachinePool == {Ann(1, 1, 1, BoxA), Ann(2, 2, 2, BoxA)}
HumanPool == {Ann(1, 1, 1, BoxB), Ann(2, 2, 1, BoxA)}

SeqsUpTo(S, n) == UNION {[1..k -> S] : k \in 0..n}

\* the "images" lists a machine file may hold
ImageLists == {<<>>, <<ImageInfo(1, "small.png")>>,
               <<ImageInfo(1, "small.png"), ImageInfo(2, "big.png")>>}

MachineFiles == [annotations : SeqsUpTo(MachinePool, MaxAnns), images : ImageLists]
HumanFiles == [annotations : SeqsUpTo(HumanPool, MaxAnns), images : {<<>>}]

\* the files the viewer is exercised with
ViewImages == <<ImageInfo(1, "sub/small.png"), ImageInfo(2, "big.png"),
                ImageInfo(3, "bad.png"), ImageInfo(4, "huge.png"),
                ImageInfo(5, "gone.png")>>
ViewMachineFiles ==
    {[annotations |-> <<Ann(1, 1, 1, BoxA)>>, images |-> ViewImages]}

\* widget geometry is the layout's: the sizes a resize may bring
Sizes == {<<600, 400>>, <<800, 600>>}
InfoHeights == {30, 41}
InitialSize == <<800, 600>>
InitialInfoHeight == 30
Points == {<<0, 0>>, <<4, 3>>, <<9, 7>>}
Deltas == {-120, 0, 120}
Buttons == {"left", "right"}

\* annotations as the renderer meets them: bbox and segmentation are JSON
\* values, confidence a float that a binary fraction holds exactly
RenderAnn(id, category_id, bbox, segmentation, confidence) ==
    [id |-> id, image_id |-> 1, category_id |-> category_id, bbox |-> bbox,
     segmentation |-> segmentation, confidence |-> confidence]
Nums(s) == List([k \in 1..Len(s) |-> Num(s[k])])
GoodBox == Nums(<<1, 2, 3, 4>>)
WideBox == Nums(<<5, 1, 7, 2>>)
ShortBox == Nums(<<1, 2, 3>>)
TextBox == List(<<Num(1), Num(2), Str("3"), Num(4)>>)
Triangle == Nums(<<0, 0, 4, 0, 4, 3>>)
OddSeven == Nums(<<1, 1, 5, 1, 5, 4, 9>>)
OddFive == Nums(<<1, 1, 5, 1, 5>>)
TwoPoints == Nums(<<2, 2, 6, 6>>)
Nested == List(<<OddSeven, TwoPoints, Triangle>>)
PlainAnn == RenderAnn(1, 3, GoodBox, Triangle, <<1, 1>>)
NestedAnn == RenderAnn(2, 5, WideBox, Nested, <<7, 8>>)
NoBoxAnn == RenderAnn(3, 3, Null, Triangle, <<1, 1>>)
ShortBoxAnn == RenderAnn(4, 3, ShortBox, Null, <<1, 2>>)
TextBoxAnn == RenderAnn(5, 3, TextBox, Null, <<1, 1>>)
NearOneAnn == RenderAnn(6, 4, GoodBox, OddFive, <<255, 256>>)
MaskAnn == RenderAnn(7, 4, WideBox, Dict("rle"), <<1, 8>>)
EmptyBoxAnn == RenderAnn(8, 4, List(<<>>), List(<<>>), <<1, 1>>)

RenderImages == {<<ImageInfo(1, "small.png")>>, <<ImageInfo(1, "bad.png")>>}
RenderMachineLists == {<<PlainAnn, NestedAnn>>, <<NoBoxAnn, PlainAnn, ShortBoxAnn>>,
                       <<TextBoxAnn, PlainAnn>>}
RenderHumanLists == {<<NearOneAnn>>, <<MaskAnn, EmptyBoxAnn, NestedAnn>>}
RenderMachineFiles == [annotations : RenderMachineLists, images : RenderImages]
RenderHumanFiles == [annotations : RenderHumanLists, images : {<<>>}]

\* the files the step-wise comparison is exercised with
ListIdAnn == Ann(3, ListId, 1, BoxA)
StepMachineLists == {<<Ann(1, 1, 1, BoxA)>>,
                     <<Ann(1, 1, 1, BoxA), Ann(2, 2, 2, BoxA)>>,
                     <<ListIdAnn>>}
StepHumanLists == {<<Ann(1, 1, 1, BoxB)>>,
                   <<Ann(1, 1, 1, BoxB), Ann(2, 3, 1, BoxA), Ann(3, 3, 1, BoxA)>>}
StepMachineFiles == [annotations : StepMachineLists,
                     images : {<<>>, <<ImageInfo(1, "small.png")>>}]
StepHumanFiles == [annotations : StepHumanLists, images : {<<>>}]
RenderDirectories == {"dirA"}
RenderDeltas == {-120}
CheckStates == {Unchecked, Checked}

(***************************************************************************)
(* Specifications.                                                         *)
(***************************************************************************)
\* the state after CocoComparisonApp.__init__ and AnnotationViewer.__init__
Init ==
    /\ current_image = None
    /\ viewer_machine = <<>>
    /\ viewer_human = <<>>
    /\ scale_factor = <<1, 1>>
    /\ offset = <<0, 0>>
    /\ drag_start = NoAttr
    /\ size = InitialSize
    /\ info_h = InitialInfoHeight
    /\ machine_annotations = <<>>
    /\ human_annotations = <<>>
    /\ images = <<>>
    /\ images_directory = NoDirectory
    /\ current_image_index = 0
    /\ statistics = InitialStatistics
    /\ lastOp = Op("__init__", NoArgs, "done")
    /\ raised = FALSE
    /\ nevents = 0
    /\ stats_text = <<>>
    /\ exported = <<>>
    /\ pc = "idle"
    /\ show_machine = TRUE /\ show_human = TRUE
    /\ show_labels = TRUE /\ show_polygons = TRUE
    /\ painted = NotPainted

\* loading annotation files and comparing them
Next ==
    \/ \E data \in MachineFiles : LoadMachine(data)
    \/ \E data \in HumanFiles : LoadHuman(data)
    \/ \E which \in {"load_machine_annotations", "load_human_annotations"} :
          LoadFailed(which)
    \/ PerformComparison

Spec == Init /\ [][Next]_vars

\* viewing the images of one dataset: zoom, pan, fit, resize, navigation
ViewNext ==
    \/ \E data \in ViewMachineFiles : LoadMachine(data)
    \/ \E dir \in Directories : LoadImages(dir)
    \/ PrevImage
    \/ NextImage
    \/ \E delta \in Deltas : WheelEvent(delta)
    \/ ZoomIn
    \/ ZoomOut
    \/ FitToView
    \/ \E sz \in Sizes, ih \in InfoHeights : ResizeEvent(sz, ih)
    \/ \E button \in Buttons, pos \in Points : MousePressEvent(button, pos)
    \/ \E pos \in Points, leftHeld \in BOOLEAN : MouseMoveEvent(pos, leftHeld)
    \/ \E button \in Buttons : MouseReleaseEvent(button)

ViewSpec == Init /\ [][ViewNext]_vars

\* rendering the annotations of one image under the display flags
RenderNext ==
    \/ \E data \in RenderMachineFiles : LoadMachine(data)
    \/ \E data \in RenderHumanFiles : LoadHuman(data)
    \/ \E dir \in RenderDirectories : LoadImages(dir)
    \/ \E delta \in RenderDeltas : WheelEvent(delta)
    \/ \E state \in CheckStates : toggle_machine_display(state)
    \/ \E state \in CheckStates : toggle_human_display(state)
    \/ \E state \in CheckStates : toggle_labels_display(state)
    \/ \E state \in CheckStates : toggle_polygons_display(state)
    \/ PaintEvent

RenderSpec == Init /\ [][RenderNext]_vars

\* comparison runs seen statement by statement, with loads and exports
\* between them
StepNext ==
    \/ \E data \in StepMachineFiles : pc = "idle" /\ LoadMachine(data)
    \/ \E data \in StepHumanFiles : pc = "idle" /\ LoadHuman(data)
    \/ CompareBegin
    \/ CompareScore
    \/ CompareShow
    \/ CompareClose
    \/ \E written \in BOOLEAN : ExportStatistics(written)

StepSpec == Init /\ [][StepNext]_vars

(***************************************************************************)
(* Properties of the comparison (checked under Spec).                      *)
(***************************************************************************)
ComparisonRan == lastOp.op = "perform_comparison"
ComparisonDone == ComparisonRan /\ lastOp.outcome = "done"
Zero == <<0, 1>>
One == <<1, 1>>

\* IoU of two boxes [x, y, w, h] is at least the rational thr
Min2(a, b) == IF a < b THEN a ELSE b
Max2(a, b) == IF a > b THEN a ELSE b
BoxIntersection(a, b) ==
    Max0(Min2(a[1] + a[3], b[1] + b[3]) - Max2(a[1], b[1]))
      * Max0(Min2(a[2] + a[4], b[2] + b[4]) - Max2(a[2], b[2]))
BoxIoUAtLeast(a, b, thr) ==
    LET inter == BoxIntersection(a, b)
        union == a[3] * a[4] + b[3] * b[4] - inter
    IN  union > 0 /\ inter * thr[2] >= thr[1] * union
IouThreshold == <<1, 2>>

\* C1: the statistics always satisfy precision = matches / total_machine
\* (0 when total_machine = 0), recall = matches / total_human (0 when
\* total_human = 0) and F1 = 2*precision*recall / (precision + recall)
\* (0 when both are 0), and no run of perform_comparison ends in its
\* exception path (no division error), whatever was loaded.
C1_MetricsFormulas ==
    LET st == statistics
        p == st.precision
        r == st.recall
        f == st.f1_score
    IN  /\ lastOp.outcome # "error"
        /\ p # ZeroDivisionError /\ r # ZeroDivisionError
        /\ IF st.total_machine = 0 THEN p = Zero
           ELSE p[2] > 0 /\ p[1] * st.total_machine = st.matches * p[2]
        /\ IF st.total_human = 0 THEN r = Zero
           ELSE r[2] > 0 /\ r[1] * st.total_human = st.matches * r[2]
        /\ IF p = Zero /\ r = Zero THEN f = Zero
           ELSE RMul(f, RAdd(p, r)) = RMul(<<2, 1>>, RMul(p, r))

\* a completed run with a fractional precision that differs from the recall
C1_Witness ==
    /\ ComparisonDone
    /\ statistics.precision = <<1, 2>>
    /\ statistics.recall = One
    /\ statistics.f1_score = <<2, 3>>

\* C2: after a completed comparison run matches + mismatches + missing =
\* total_human and matches + mismatches + extra = total_machine.
C2_CountsPartition ==
    ComparisonDone =>
        /\ statistics.matches + statistics.mismatches + statistics.missing
             = statistics.total_human
        /\ statistics.matches + statistics.mismatches + statistics.extra
             = statistics.total_machine

\* C3: after a completed run over one machine and one human annotation on
\* the same image whose IoU is at least the threshold and whose category ids
\* differ, the pair is counted as a Mismatch and not as a Match.
C3_CategoryMismatch ==
    (/\ ComparisonDone
     /\ Len(machine_annotations) = 1 /\ Len(human_annotations) = 1
     /\ machine_annotations[1].image_id = human_annotations[1].image_id
     /\ BoxIoUAtLeast(machine_annotations[1].bbox, human_annotations[1].bbox,
                      IouThreshold)
     /\ machine_annotations[1].category_id # human_annotations[1].category_id)
    => (statistics.matches = 0 /\ statistics.mismatches = 1)

\* C4: a comparison invoked with no machine annotations yields one Missing
\* per human annotation and no Match, Mismatch or Extra; invoked with no
\* human annotations it yields one Extra per machine annotation.
C4_EmptySide ==
    /\ (ComparisonRan /\ machine_annotations = <<>>) =>
          /\ statistics.missing = Len(human_annotations)
          /\ statistics.matches = 0
          /\ statistics.mismatches = 0
          /\ statistics.extra = 0
    /\ (ComparisonRan /\ human_annotations = <<>>) =>
          statistics.extra = Len(machine_annotations)

\* C5: after a completed run over a corpus of one image holding one machine
\* and one human annotation with equal category ids and IoU at least the
\* threshold, the statistics are one Match, no Mismatch, Missing or Extra,
\* and precision = recall = F1 = 1.
C5_SinglePair ==
    /\ ComparisonDone
    /\ Len(images) = 1
    /\ Len(machine_annotations) = 1 /\ Len(human_annotations) = 1
    /\ machine_annotations[1].image_id = images[1].id
    /\ human_annotations[1].image_id = images[1].id
    /\ machine_annotations[1].category_id = human_annotations[1].category_id
    /\ BoxIoUAtLeast(machine_annotations[1].bbox, human_annotations[1].bbox,
                     IouThreshold)

C5_SingleMatch ==
    C5_SinglePair =>
        /\ statistics.matches = 1
        /\ statistics.mismatches = 0
        /\ statistics.missing = 0
        /\ statistics.extra = 0
        /\ statistics.precision = One
        /\ statistics.recall = One
        /\ statistics.f1_score = One

C5_Witness == C5_SinglePair /\ statistics.total_images = 1

(***************************************************************************)
(* Properties of the viewport (checked under ViewSpec).                    *)
(***************************************************************************)
InRange(s) == RLeq(MinScale, s) /\ RLeq(s, MaxScale)

WheelStep == lastOp'.op = "wheelEvent" /\ nevents' = nevents + 1
MenuInStep == lastOp'.op = "zoom_in" /\ nevents' = nevents + 1
MenuOutStep == lastOp'.op = "zoom_out" /\ nevents' = nevents + 1
FitStep == lastOp'.op \in {"fit_to_view", "resizeEvent"} /\ nevents' = nevents + 1
MoveStep == lastOp'.op = "mouseMoveEvent" /\ nevents' = nevents + 1

\* C6: a wheel zoom or a View-menu zoom that starts from a scale factor in
\* [0.1, 10.0] leaves the scale factor in [0.1, 10.0].
C6_ZoomKeepsRange ==
    [][((WheelStep \/ MenuInStep \/ MenuOutStep) /\ InRange(scale_factor))
         => InRange(scale_factor')]_vars

\* the scale s multiplied by factor, as it is or clamped
Scaled(s, factor) == {RMul(s, factor), Clamp(RMul(s, factor))}

HasImage == current_image # None /\ ~isNull(current_image)

\* C8: fit_to_view with a loaded image of non-zero size (from the View menu
\* or a resize) sets scale = min(width / imageWidth, (height - infoHeight) /
\* imageHeight) * 0.9 and the offset to (0, infoHeight // 2), whatever the
\* scale and offset were.
C8_FitSetsScaleAndOffset ==
    [][(FitStep /\ HasImage) =>
        LET sx == Rat(size'[1], current_image[1])
            sy == Rat(size'[2] - info_h', current_image[2])
            m == IF RLess(sy, sx) THEN sy ELSE sx
        IN  /\ scale_factor' = Rat(m[1] * 9, m[2] * 10)
            /\ offset' = <<0, info_h' \div 2>>]_vars

\* a menu fit after other events, height-bound with an odd info panel
\* height: (400 - 41) / 2400 * 0.9 and offset (0, 20)
C8_Witness ==
    /\ lastOp.op = "fit_to_view"
    /\ nevents > 1
    /\ current_image = <<4000, 2400>>
    /\ size = <<600, 400>> /\ info_h = 41
    /\ scale_factor = <<1077, 8000>>
    /\ offset = <<0, 20>>

\* C9: fit_to_view with no image or with an image of zero width or height
\* leaves scale factor and offset unchanged and raises nothing.
C9_FitNoImageNoOp ==
    [][(FitStep /\ ~HasImage) =>
        /\ scale_factor' = scale_factor
        /\ offset' = offset
        /\ raised' = FALSE]_vars

\* a menu fit on a null pixmap after a zoom and a pan
C9_Witness ==
    /\ lastOp.op = "fit_to_view"
    /\ current_image = NullPixmap
    /\ scale_factor # <<1, 1>>
    /\ offset # <<0, 0>>

\* C24: a resize event with an image loaded replaces the scale factor and
\* the offset by the fit values for the new geometry, whatever zoom and pan
\* set them to; with no image (or a null pixmap) it leaves both unchanged.
C24_ResizeRefits ==
    [][(lastOp'.op = "resizeEvent" /\ nevents' = nevents + 1) =>
         IF HasImage
         THEN LET w == Rat(size'[1], current_image[1])
                  h == Rat(size'[2] - info_h', current_image[2])
              IN  /\ scale_factor' = RMul(RMin(w, h), <<9, 10>>)
                  /\ offset' = <<0, info_h' \div 2>>
                  /\ current_image' = current_image
         ELSE scale_factor' = scale_factor /\ offset' = offset]_vars

\* a resize to 600 x 400 after other events refits the 60 x 36 image:
\* min(600 / 60, 370 / 36) * 0.9 = 9
C24_Witness ==
    /\ lastOp.op = "resizeEvent"
    /\ nevents >= 3
    /\ current_image = <<60, 36>>
    /\ size = <<600, 400>> /\ info_h = 30
    /\ scale_factor = <<9, 1>>
    /\ offset = <<0, 15>>

\* C10: a mouse move with the left button held during a drag (drag_start
\* holds the last position) adds its delta to the offset, unclamped.
C10_PanAccumulates ==
    [][(/\ MoveStep
        /\ lastOp'.arg.held
        /\ drag_start # NoAttr /\ drag_start # None)
       => offset' = <<offset[1] + lastOp'.arg.pos[1] - drag_start[1],
                      offset[2] + lastOp'.arg.pos[2] - drag_start[2]>>]_vars

\* a handler that may call show_image ran
ShowStep ==
    lastOp'.op \in {"load_machine_annotations", "load_human_annotations",
                    "load_images", "prev_image", "next_image"}

\* C11: when a handler loads a different image into the view (the index or
\* the pixmap changes and the new pixmap is not null), the scale factor and
\* offset are those fit_to_view computes for the new image, whatever zoom
\* and pan the previous image had.
C11_LoadResetsScale ==
    [][(/\ ShowStep
        /\ (current_image_index' # current_image_index
              \/ current_image' # current_image)
        /\ HasImage') =>
        LET sx == Rat(size[1], current_image'[1])
            sy == Rat(size[2] - info_h, current_image'[2])
            m == IF RLess(sy, sx) THEN sy ELSE sx
        IN  /\ scale_factor' = Rat(m[1] * 9, m[2] * 10)
            /\ offset' = <<0, info_h \div 2>>]_vars

\* the second image shown by next_image after two viewer events, at the
\* fit scale min(800 / 4000, 570 / 2400) * 0.9
C11_Witness ==
    /\ lastOp.op = "next_image"
    /\ nevents >= 2
    /\ current_image_index = 1
    /\ current_image = <<4000, 2400>>
    /\ size = <<800, 600>> /\ info_h = 30
    /\ scale_factor = <<9, 50>>

\* the fields of st agree with each other: the counts with the totals, the
\* ratios with the counts, f1_score with the ratios
Consistent(st) ==
    /\ st.mismatches = Abs(st.total_machine - st.total_human)
    /\ st.missing = Max0(st.total_human - st.total_machine)
    /\ st.extra = Max0(st.total_machine - st.total_human)
    /\ st.precision = (IF st.total_machine > 0
                       THEN Rat(st.matches, st.total_machine) ELSE Zero)
    /\ st.recall = (IF st.total_human > 0
                    THEN Rat(st.matches, st.total_human) ELSE Zero)
    /\ IF st.precision = Zero /\ st.recall = Zero THEN st.f1_score = Zero
       ELSE RMul(st.f1_score, RAdd(st.precision, st.recall))
              = RMul(<<2, 1>>, RMul(st.precision, st.recall))
\* the event loop runs, so another handler can read the statistics
Observable == pc \in {"idle", "dialog"}

\* C19: whenever another operation can run (before a run starts, or in the
\* dialog that ends a completed run), the statistics are whole: they are
\* the initial ones if no run has completed and otherwise exactly those the
\* last completed run displayed, with counts, precision, recall and F1
\* consistent with each other; so are the statistics on display and the
\* exported ones, also after a run that ended in its error path.
C19_PublishedOnCompletion ==
    /\ Observable =>
          /\ Consistent(statistics)
          /\ statistics = (IF stats_text = <<>> THEN InitialStatistics
                           ELSE stats_text[1])
    /\ stats_text # <<>> => Consistent(stats_text[1])
    /\ exported # <<>> => Consistent(exported[1])

\* a run has ended in its error path after an earlier run completed with a
\* non-zero F1, and the statistics are still those on display
C19_Witness ==
    /\ pc = "idle"
    /\ lastOp = Op("perform_comparison", NoArgs, "error")
    /\ stats_text # <<>>
    /\ statistics.f1_score # Zero
    /\ statistics.total_machine # Len(machine_annotations)

\* C22: perform_comparison called while machine_annotations or
\* human_annotations is empty ends as rejected and leaves every field of
\* the statistics, and the statistics panel, as they were.
C22_RejectedLeavesStatistics ==
    [][(/\ lastOp'.op = "perform_comparison"
        /\ (machine_annotations = <<>> \/ human_annotations = <<>>)) =>
         /\ lastOp'.outcome = "rejected"
         /\ statistics' = statistics
         /\ stats_text' = stats_text]_vars

\* a rejected call after a completed run and the load of an empty list: the
\* statistics are still those of the completed run
C22_Witness ==
    /\ lastOp = Op("perform_comparison", NoArgs, "rejected")
    /\ machine_annotations = <<>>
    /\ human_annotations # <<>>
    /\ statistics.total_machine = 2
    /\ statistics.f1_score # Zero

\* C23: the statistics always have matches <= min(total_machine,
\* total_human) and precision, recall and F1 in [0, 1], after any
\* comparison run as before the first.
C23_MetricsInRange ==
    /\ statistics.matches >= 0
    /\ statistics.matches <= Min2(statistics.total_machine,
                                  statistics.total_human)
    /\ \A m \in {statistics.precision, statistics.recall,
                  statistics.f1_score} :
          RLeq(Zero, m) /\ RLeq(m, One)

\* a completed run over two machine and two human annotations that share
\* one image: matches is 1, below both totals
C23_Witness ==
    /\ ComparisonDone
    /\ statistics.total_machine = 2 /\ statistics.total_human = 2
    /\ statistics.matches = 1
    /\ statistics.precision = <<1, 2>>
    /\ statistics.f1_score = <<1, 2>>

(***************************************************************************)
(* Properties of a render pass (checked under RenderSpec).                 *)
(***************************************************************************)
\* a paint pass has just run; P is what it drew, in drawing order
JustPainted == lastOp.op = "paintEvent" /\ painted.done
P == painted.prims
Sets == {"M", "H"}
AnnList(prefix) == IF prefix = "M" THEN viewer_machine ELSE viewer_human
Visible(prefix) == IF prefix = "M" THEN show_machine ELSE show_human
\* the annotation has a bounding box of four numbers
WellFormed(ann) ==
    /\ IsList(ann.bbox)
    /\ Len(ann.bbox.list) = 4
    /\ \A k \in 1..4 : IsNum(ann.bbox.list[k])
\* positions in P of the primitives of a kind drawn for annotation i of a set
PrimsOf(kind, prefix, i) ==
    {k \in 1..Len(P) : /\ P[k].kind = kind
                       /\ P[k].prefix = prefix
                       /\ P[k].index = i}
\* positions in P of all boxes
BoxPositions == {k \in 1..Len(P) : P[k].kind = "box"}
\* the annotation a primitive was drawn for
AnnOf(prim) == AnnList(prim.prefix)[prim.index + 1]
\* the coordinate sequences of a segmentation: the flat one itself, or the
\* members of a list of sequences
SubPolygons(seg) ==
    IF Len(seg.list) > 0 /\ IsList(seg.list[1]) THEN seg.list ELSE <<seg>>

C13_LabelChips ==
    JustPainted =>
        /\ \A k \in BoxPositions :
              IF show_labels
              THEN /\ k < Len(P)
                   /\ P[k + 1].kind = "label"
                   /\ P[k + 1].prefix = P[k].prefix
                   /\ P[k + 1].index = P[k].index
                   /\ P[k + 1].text.prefix = P[k].prefix
                   /\ P[k + 1].text.number = P[k].index + 1
                   /\ P[k + 1].text.category_id = AnnOf(P[k]).category_id
                   /\ (P[k + 1].text.suffix # <<>>
                         <=> RLess(AnnOf(P[k]).confidence, One))
              ELSE PrimsOf("label", P[k].prefix, P[k].index) = {}
        /\ \A k \in 1..Len(P) :
              P[k].kind = "label" => (k > 1 /\ (k - 1) \in BoxPositions)

\* the second machine annotation, confidence 0.875, is labelled "M2:5(0.88)"
\* and the first, confidence 1.0, "M1:3" with no suffix
C13_Witness ==
    /\ JustPainted
    /\ show_labels
    /\ \E k \in 1..Len(P) :
          /\ P[k].kind = "label"
          /\ P[k].text = [prefix |-> "M", number |-> 2, category_id |-> 5,
                          suffix |-> <<88>>]
    /\ \E k \in 1..Len(P) :
          /\ P[k].kind = "label"
          /\ P[k].text = [prefix |-> "M", number |-> 1, category_id |-> 3,
                          suffix |-> <<>>]

\* C14: with show_polygons on, an annotation that is drawn and carries a
\* segmentation gets exactly one polygon for each of its sub-polygons that
\* pairs into at least 3 points and none for a sub-polygon with fewer,
\* whatever its other sub-polygons are; a segmentation that is no list gets
\* none; with show_polygons off no polygon is drawn at all.
C14_PolygonsPerSubPolygon ==
    JustPainted =>
        /\ ~show_polygons => \A k \in 1..Len(P) : P[k].kind # "polygon"
        /\ \A k \in 1..Len(P) :
              P[k].kind = "polygon" =>
                 PrimsOf("box", P[k].prefix, P[k].index) # {}
        /\ show_polygons =>
              \A b \in BoxPositions :
                 LET seg == AnnOf(P[b]).segmentation
                     drawn == PrimsOf("polygon", P[b].prefix, P[b].index)
                 IN  IF IsList(seg)
                     THEN \A s \in 0..(Len(SubPolygons(seg)) - 1) :
                             Cardinality({k \in drawn : P[k].sub = s})
                               = (IF Len(SubPolygons(seg)[s + 1].list) \div 2
                                       >= 3
                                  THEN 1 ELSE 0)
                     ELSE drawn = {}

\* of the three sub-polygons of the second machine annotation the one with
\* two points is left out and the one after it is drawn
C14_Witness ==
    /\ JustPainted
    /\ show_polygons
    /\ Len(viewer_machine) = 2
    /\ viewer_machine[2].segmentation = Nested
    /\ \E k \in PrimsOf("polygon", "M", 1) : P[k].sub = 2
    /\ \A k \in PrimsOf("polygon", "M", 1) : P[k].sub # 1

\* C15: a drawn annotation whose segmentation is one flat coordinate
\* sequence (of at least 3 points) gets exactly one polygon, made of all its
\* points; one whose segmentation is a list of sequences gets at most one
\* polygon per sequence, each made of the points of its own sequence.
C15_Normalised ==
    (JustPainted /\ show_polygons) =>
        \A b \in BoxPositions :
           LET seg == AnnOf(P[b]).segmentation
               drawn == PrimsOf("polygon", P[b].prefix, P[b].index)
           IN  IsList(seg) /\ Len(seg.list) > 0 =>
                 IF IsNum(seg.list[1])
                 THEN Len(seg.list) >= 6 =>
                        /\ Cardinality(drawn) = 1
                        /\ \A k \in drawn :
                              Len(P[k].points) = Len(seg.list) \div 2
                 ELSE /\ \A k \in drawn :
                            /\ P[k].sub >= 0 /\ P[k].sub < Len(seg.list)
                            /\ Len(P[k].points)
                                 = Len(seg.list[P[k].sub + 1].list) \div 2
                      /\ \A k, l \in drawn : P[k].sub = P[l].sub => k = l

\* a flat triangle drawn as one polygon of three points next to a list of
\* three sequences drawn as two polygons
C15_Witness ==
    /\ JustPainted
    /\ show_polygons
    /\ viewer_machine = <<PlainAnn, NestedAnn>>
    /\ Cardinality(PrimsOf("polygon", "M", 0)) = 1
    /\ \A k \in PrimsOf("polygon", "M", 0) : Len(P[k].points) = 3
    /\ Cardinality(PrimsOf("polygon", "M", 1)) = 2

\* C16: with show_polygons on, no polygon is drawn for a sub-polygon of a
\* drawn annotation whose coordinate list has odd length, while the box of
\* that annotation is drawn.
C16_OddSkipped ==
    (JustPainted /\ show_polygons) =>
        \A b \in BoxPositions :
           LET seg == AnnOf(P[b]).segmentation
           IN  IsList(seg) =>
                 \A s \in 0..(Len(SubPolygons(seg)) - 1) :
                    Len(SubPolygons(seg)[s + 1].list) % 2 = 1 =>
                       \A k \in PrimsOf("polygon", P[b].prefix, P[b].index) :
                          P[k].sub # s

\* C17: no render pass is ended by an exception, and a pass over a loaded
\* image draws the box of every annotation of a visible set that carries a
\* bounding box of four numbers, whatever the other annotations are.
C17_NeverAborts ==
    JustPainted =>
        /\ ~painted.raised
        /\ painted.image # <<>> =>
              \A prefix \in Sets : \A i \in 0..(Len(AnnList(prefix)) - 1) :
                 (Visible(prefix) /\ WellFormed(AnnList(prefix)[i + 1]))
                    => PrimsOf("box", prefix, i) # {}

\* the number of image ids that annotations of both lists refer to
SharedImages(mach, hum) ==
    Cardinality({id \in {mach[i].image_id : i \in 1..Len(mach)} :
                   \E j \in 1..Len(hum) : hum[j].image_id = id})

\* C18: the statistics a completed comparison run leaves are a function of
\* the loaded annotations and images alone (counts from the lists, ratios
\* from the counts), and a run that directly follows a completed run, with
\* no load in between, leaves the statistics as they were.
C18_RecomputedWholesale ==
    [][ComparisonDone' =>
        LET st == statistics'
            m == Len(machine_annotations')
            h == Len(human_annotations')
            k == SharedImages(machine_annotations', human_annotations')
        IN  /\ st.total_images = Len(images')
            /\ st.total_machine = m /\ st.total_human = h
            /\ st.matches = k
            /\ st.mismatches = Abs(m - h)
            /\ st.missing = Max0(h - m) /\ st.extra = Max0(m - h)
            /\ st.precision = Rat(k, m) /\ st.recall = Rat(k, h)
            /\ st.f1_score = (IF k = 0 THEN Zero ELSE Rat(2 * k, m + h))
            /\ (ComparisonDone => statistics' = statistics)]_vars

\* a completed run over two machine annotations and one human annotation
C18_Witness ==
    /\ ComparisonDone
    /\ Len(machine_annotations) = 2 /\ Len(human_annotations) = 1
    /\ statistics.total_machine = 2 /\ statistics.total_human = 1
    /\ statistics.matches = 1
    /\ statistics.f1_score = <<2, 3>>

\* the index a handler passes to show_image
ShowTarget ==
    IF lastOp'.op = "prev_image" THEN current_image_index - 1
    ELSE IF lastOp'.op = "next_image" THEN current_image_index + 1
    ELSE 0
\* that index is a position of the registry and its file is found
ShowResolves ==
    /\ ShowTarget >= 0 /\ ShowTarget < Len(images')
    /\ ResolvedName(images_directory', images'[ShowTarget + 1].file_name)
          # Missing

\* C21: a handler that may call show_image leaves current_image_index, the
\* viewer's image and the viewer's annotation lists as they were when the
\* index is out of range or the image's file is not found; prev_image and
\* next_image whose target is in range and found set the index to the
\* target and the viewer's lists to the annotations of that image.
C21_ShowImageFrame ==
    [][ShowStep =>
         IF ShowResolves
         THEN lastOp'.op \in {"prev_image", "next_image"} =>
                 /\ current_image_index' = ShowTarget
                 /\ viewer_machine'
                      = AnnsOfImage(machine_annotations,
                                    images[ShowTarget + 1].id)
                 /\ viewer_human'
                      = AnnsOfImage(human_annotations,
                                    images[ShowTarget + 1].id)
         ELSE /\ current_image_index' = current_image_index
              /\ current_image' = current_image
              /\ viewer_machine' = viewer_machine
              /\ viewer_human' = viewer_human]_vars

\* next_image after the directory was switched to one that holds no image:
\* the view stays on the second image
C21_Witness ==
    /\ lastOp.op = "next_image"
    /\ images_directory = "dirB"
    /\ Len(images) = 5
    /\ current_image_index = 1
    /\ current_image = <<4000, 2400>>

\* C20: current_image_index is 0 when no image is registered and otherwise
\* a position of the registry: 0 <= current_image_index < len(images).
C20_IndexValid ==
    IF images = <<>> THEN current_image_index = 0
    ELSE 0 <= current_image_index /\ current_image_index < Len(images)

\* navigation has reached the fourth of five registered images
C20_Witness ==
    /\ Len(images) = 5
    /\ current_image_index = 3
    /\ lastOp.op = "next_image"

=============================================================================
